---------------------------- MODULE Spec2Model ----------------------------
(***************************************************************************)
(* Model of api/apps.go of semaphore: the flattener structToFlatMap, the   *)
(* appMiddleware, and the handlers getApps, getApp, deleteApp, setApp and  *)
(* setAppActive, which keep the Option Store and the process-wide           *)
(* util.Config.Apps.                                                       *)
(*                                                                         *)
(* A Go string is a sequence of symbols.  A symbol is one of the           *)
(* punctuation characters "." "," "-" "[" "]" " " and the double quote, or *)
(* a run of other characters ("apps", "dark_color") that no operation of   *)
(* the program ever cuts.                                                  *)
(***************************************************************************)
EXTENDS Integers, Sequences, FiniteSets, TLC

(***************************************************************************)
(* Strings                                                                 *)
(***************************************************************************)

Dot == "."

Comma == ","

Quote == "\""

\* Index of the first occurrence of sep in s, 0 when there is none.
IndexOf(s, sep) ==
  IF \E i \in 1..Len(s) : s[i] = sep
  THEN CHOOSE i \in 1..Len(s) : s[i] = sep /\ \A j \in 1..(i - 1) : s[j] # sep
  ELSE 0

RECURSIVE Split(_, _)
\* strings.Split(s, sep): the pieces of s between the occurrences of sep;
\* a string without sep (the empty one too) is its own single piece.
Split(s, sep) ==
  LET i == IndexOf(s, sep)
  IN IF i = 0 THEN <<s>>
     ELSE <<SubSeq(s, 1, i - 1)>> \o Split(SubSeq(s, i + 1, Len(s)), sep)

RECURSIVE Join(_, _)
\* The pieces joined by sep.
Join(parts, sep) ==
  IF Len(parts) = 0 THEN <<>>
  ELSE IF Len(parts) = 1 THEN parts[1]
  ELSE parts[1] \o <<sep>> \o Join(Tail(parts), sep)

HasPrefix(s, pre) == Len(s) >= Len(pre) /\ SubSeq(s, 1, Len(pre)) = pre

(***************************************************************************)
(* Go values: [kind, val].  A struct's val is the sequence of its fields   *)
(* [name, tag, v], tag being the field's json tag.                         *)
(***************************************************************************)

Bool(b) == [kind |-> "bool", val |-> b]

String(s) == [kind |-> "string", val |-> s]

Slice(xs) == [kind |-> "slice", val |-> xs]

Struct(fields) == [kind |-> "struct", val |-> fields]

Ptr(v) == [kind |-> "ptr", val |-> v]

Field(name, tag, v) == [name |-> name, tag |-> tag, v |-> v]

EmptyMap == [k \in {} |-> <<>>]

(***************************************************************************)
(* structToFlatMap                                                         *)
(***************************************************************************)

\* The field name without the split at the comma.
KeyNameWholeTag(name, tag) ==
  IF tag = <<>> \/ tag = <<"-">> THEN name ELSE tag

\* The key of a field: its json tag up to the first comma, or the field's
\* name when the tag is empty or "-".
KeyName(name, tag) ==
  IF tag = <<>> \/ tag = <<"-">> THEN name ELSE Split(tag, Comma)[1]

\* The keys of a nested map prefixed by the field's key.
PrefixKeys(fieldName, nested) ==
  [k \in {fieldName \o <<Dot>> \o n : n \in DOMAIN nested} |->
     nested[SubSeq(k, Len(fieldName) + 2, Len(k))]]

\* The nested map added without the prefix.
AddNestedNoPrefix(result, fieldName, nested) == nested @@ result

\* result[fieldName+"."+k] = v for every entry of the nested map.
AddNested(result, fieldName, nested) == PrefixKeys(fieldName, nested) @@ result

RECURSIVE FlattenFields(_, _, _)
\* The loop over the fields i..NumField of a struct, result being the map
\* built so far: a later field overwrites an earlier one of the same key.
FlattenFields(fields, i, result) ==
  IF i > Len(fields) THEN result
  ELSE LET f == fields[i]
           fieldName == KeyName(f.name, f.tag)
       IN IF f.v.kind = "struct"
          THEN FlattenFields(fields, i + 1,
                 AddNested(result, fieldName, FlattenFields(f.v.val, 1, EmptyMap)))
          ELSE FlattenFields(fields, i + 1, (fieldName :> f.v) @@ result)

\* structToFlatMap(obj): a pointer is dereferenced once; what is then no
\* struct gives the empty map.
StructToFlatMap(obj) ==
  LET o == IF obj.kind = "ptr" THEN obj.val ELSE obj
  IN IF o.kind # "struct" THEN EmptyMap ELSE FlattenFields(o.val, 1, EmptyMap)

(***************************************************************************)
(* Text forms                                                              *)
(***************************************************************************)

\* json.Marshal of a slice of strings.
JsonMarshal(xs) ==
  <<"[">> \o Join([i \in 1..Len(xs) |-> <<Quote>> \o xs[i] \o <<Quote>>], Comma) \o <<"]">>

\* fmt.Sprintf("%v", val).
Sprintf(v) ==
  CASE v.kind = "bool" -> IF v.val THEN <<"true">> ELSE <<"false">>
    [] v.kind = "string" -> v.val
    [] v.kind = "slice" -> <<"[">> \o Join(v.val, " ") \o <<"]">>
    [] OTHER -> <<"?">>

\* A leaf handed on as it is.
MarshalLeafNot(v) == v

\* setApp's switch on the kind of a leaf: a slice or array is replaced by
\* its JSON text, any other value is handed on as it is.
MarshalLeaf(v) ==
  IF v.kind = "slice" THEN String(JsonMarshal(v.val)) ELSE v

\* The text stored for a leaf: what setApp hands to setAppOption, formatted
\* there with %v.
Encode(v) == Sprintf(MarshalLeaf(v))


(***************************************************************************)
(* db.ConvertFlatToNested and db.AssignMapToStruct, which setAppOption     *)
(* calls.  A tree maps a key segment to a leaf (a text) or to a branch     *)
(* (a tree).                                                               *)
(***************************************************************************)

Leaf(text) == [isLeaf |-> TRUE, text |-> text]

Branch(kids) == [isLeaf |-> FALSE, kids |-> kids]

\* Key Naming Rule: the alias when it is present, non-empty and not the
\* omit marker, cut at its first comma; the declared name otherwise.
CanonicalKey(name, alias) ==
  IF alias # <<>> /\ alias # <<"-">>
  THEN LET c == IndexOf(alias, Comma)
       IN IF c = 0 THEN alias ELSE SubSeq(alias, 1, c - 1)
  ELSE name

RECURSIVE InsertPath(_, _, _)
\* The tree with the leaf text at the end of the path of segments, the
\* branches on the way created where they are missing.
InsertPath(tree, parts, text) ==
  IF Len(parts) = 1 THEN (parts[1] :> Leaf(text)) @@ tree
  ELSE LET below == IF parts[1] \in DOMAIN tree /\ ~tree[parts[1]].isLeaf
                    THEN tree[parts[1]].kids ELSE EmptyMap
       IN (parts[1] :> Branch(InsertPath(below, Tail(parts), text))) @@ tree

RECURSIVE InsertAll(_, _, _)
InsertAll(tree, opts, keys) ==
  IF keys = {} THEN tree
  ELSE LET k == CHOOSE x \in keys : TRUE
       IN InsertAll(InsertPath(tree, Split(k, Dot), opts[k]), opts, keys \ {k})

\* reconstruct: every key split on "." into a chain of nested mappings.
ConvertFlatToNested(opts) == InsertAll(EmptyMap, opts, DOMAIN opts)

Failed == [ok |-> FALSE]

Parsed(v) == [ok |-> TRUE, v |-> v]

RECURSIVE ParseItems(_, _, _)
\* The quoted strings of s from position i on, separated by commas.
ParseItems(s, i, acc) ==
  IF i > Len(s) \/ s[i] # Quote THEN Failed
  ELSE LET rest == SubSeq(s, i + 1, Len(s))
           j == IndexOf(rest, Quote)
           nxt == i + j + 1
       IN IF j = 0 THEN Failed
          ELSE IF nxt > Len(s) THEN Parsed(acc \o <<SubSeq(rest, 1, j - 1)>>)
          ELSE IF s[nxt] = Comma
               THEN ParseItems(s, nxt + 1, acc \o <<SubSeq(rest, 1, j - 1)>>)
               ELSE Failed

\* The JSON text of a sequence of strings decoded.
JsonUnmarshal(text) ==
  IF text = <<"null">> \/ text = <<"[", "]">> THEN Parsed(<<>>)
  ELSE IF Len(text) < 2 \/ text[1] # "[" \/ text[Len(text)] # "]" THEN Failed
  ELSE ParseItems(SubSeq(text, 2, Len(text) - 1), 1, <<>>)

\* A leaf text coerced to the field's declared type.
Coerce(kind, text) ==
  CASE kind = "bool" ->
         IF text = <<"true">> THEN Parsed(Bool(TRUE))
         ELSE IF text = <<"false">> THEN Parsed(Bool(FALSE)) ELSE Failed
    [] kind = "string" -> Parsed(String(text))
    [] kind = "slice" ->
         LET r == JsonUnmarshal(text)
         IN IF r.ok THEN Parsed(Slice(r.v)) ELSE Failed
    [] OTHER -> Failed

RECURSIVE AssignFields(_, _)
\* assign: a field whose canonical key is in the tree takes the tree's
\* value (a branch merged into a record field, a leaf coerced); a field
\* whose key is absent, or whose value cannot be coerced, is left as it is;
\* keys of the tree that name no field are ignored.
AssignFields(tree, fields) ==
  [i \in 1..Len(fields) |->
     LET f == fields[i]
         key == CanonicalKey(f.name, f.tag)
     IN IF key \notin DOMAIN tree THEN f
        ELSE LET node == tree[key]
             IN IF f.v.kind = "struct"
                THEN IF node.isLeaf THEN f
                     ELSE [f EXCEPT !.v = Struct(AssignFields(node.kids, f.v.val))]
                ELSE IF ~node.isLeaf THEN f
                     ELSE LET c == Coerce(f.v.kind, node.text)
                          IN IF c.ok THEN [f EXCEPT !.v = c.v] ELSE f]

AssignMapToStruct(tree, s) == Struct(AssignFields(tree, s.val))

RECURSIVE ZeroFields(_)
ZeroFields(fields) ==
  [i \in 1..Len(fields) |->
     LET f == fields[i]
     IN [f EXCEPT !.v = CASE f.v.kind = "bool" -> Bool(FALSE)
                          [] f.v.kind = "string" -> String(<<>>)
                          [] f.v.kind = "slice" -> Slice(<<>>)
                          [] f.v.kind = "struct" -> Struct(ZeroFields(f.v.val))
                          [] OTHER -> f.v]]

\* The fresh default instance of a record's type.
ZeroOf(s) == Struct(ZeroFields(s.val))


(***************************************************************************)
(* State                                                                   *)
(***************************************************************************)

VARIABLES
  kIn,      \* key naming: the field, [name, tag]
  kOut,     \* key naming: the keys the calls returned, in order
  fObj,     \* flattening: the value handed to structToFlatMap
  fOut,     \* flattening: <<>> before the call, <<map>> after it
  rObj,     \* round trip: the record flattened
  rTodo,    \* round trip: the encoded flat entries still to assign
  rTarget,  \* round trip: the instance assigned into
  rStage,   \* round trip: "new", "assigning", "done"
  store,    \* the Option Store: key -> text
  apps,     \* util.Config.Apps: app ID -> util.App
  procs,    \* the request handlers: what each is serving and where it is
  served,   \* the requests taken so far
  crashed   \* the Go runtime has ended the process

pureVars == <<kIn, kOut, fObj, fOut, rObj, rTodo, rTarget, rStage>>

serverVars == <<store, apps, procs, served, crashed>>

vars == <<pureVars, serverVars>>

ServerIdle ==
  store = <<>> /\ apps = <<>> /\ procs = <<>> /\ served = 0 /\ crashed = FALSE

KeyIdle == kIn = <<>> /\ kOut = <<>>

FlatIdle == fObj = <<>> /\ fOut = <<>>

RoundIdle == rObj = <<>> /\ rTodo = <<>> /\ rTarget = <<>> /\ rStage = "off"

(***************************************************************************)
(* Key naming: KeyName applied to a field, call after call                 *)
(***************************************************************************)

MaxTagLen == 3

MaxKeyCalls == 2

TagSymbols == {"dark_color", "omitempty", Comma, "-"}

KeyTags == UNION {[1..n -> TagSymbols] : n \in 0..MaxTagLen}

KeyFieldNames == {<<"DarkColor">>, <<"X">>}

KeyInit ==
  /\ kIn \in [name : KeyFieldNames, tag : KeyTags]
  /\ kOut = <<>>
  /\ FlatIdle /\ RoundIdle /\ ServerIdle

KeyCall ==
  /\ Len(kOut) < MaxKeyCalls
  /\ kOut' = Append(kOut, KeyName(kIn.name, kIn.tag))
  /\ UNCHANGED <<kIn, fObj, fOut, rObj, rTodo, rTarget, rStage, serverVars>>

KeyNext == KeyCall

KeySpec == KeyInit /\ [][KeyNext]_vars

(***************************************************************************)
(* Flattening: structToFlatMap applied to a value                          *)
(***************************************************************************)

MaxFields == 2

MaxInner == 1

\* The declared name of the i-th field of a struct, and a symbol of its own.
FieldNames == <<<<"A">>, <<"B">>, <<"C">>, <<"D">>>>

PosSym == <<"1", "2", "3", "4">>

FlatTags == {<<>>, <<"a">>, <<"a", Dot, "A">>}

InnerTags == {<<>>, <<"a">>}

LeafKinds == {"string", "slice"}

\* The leaf of a kind whose value names the place of the field.
LeafAt(kind, place) ==
  IF kind = "slice" THEN Slice(<<place, <<"x">>>>) ELSE String(place)

InnerChoices == [tag : InnerTags, kind : {"string"}]

InnerShapes == UNION {[1..n -> InnerChoices] : n \in 0..MaxInner}

OuterChoices ==
  [tag : FlatTags, kind : LeafKinds, inner : {<<>>}]
    \cup [tag : FlatTags, kind : {"struct"}, inner : InnerShapes]

OuterShapes == UNION {[1..n -> OuterChoices] : n \in 0..MaxFields}

\* The struct value of a shape.
Build(shape) ==
  Struct([i \in 1..Len(shape) |->
    Field(FieldNames[i], shape[i].tag,
      IF shape[i].kind = "struct"
      THEN Struct([j \in 1..Len(shape[i].inner) |->
             Field(FieldNames[j], shape[i].inner[j].tag,
                   LeafAt(shape[i].inner[j].kind, <<"v", PosSym[i], PosSym[j]>>))])
      ELSE LeafAt(shape[i].kind, <<"v", PosSym[i]>>))])

FlatRecords == {Build(sh) : sh \in OuterShapes}

NonRecords ==
  {String(<<"s">>), Bool(TRUE), Slice(<<<<"s">>>>), Ptr(String(<<"s">>)),
   Ptr(Ptr(Struct(<<Field(<<"A">>, <<>>, String(<<"s">>))>>)))}

FlatInputs == FlatRecords \cup {Ptr(r) : r \in FlatRecords} \cup NonRecords

FlatInit ==
  /\ fObj \in FlatInputs
  /\ fOut = <<>>
  /\ KeyIdle /\ RoundIdle /\ ServerIdle

FlatCall ==
  /\ fOut = <<>>
  /\ fOut' = <<StructToFlatMap(fObj)>>
  /\ UNCHANGED <<kIn, kOut, fObj, rObj, rTodo, rTarget, rStage, serverVars>>

FlatNext == FlatCall

FlatSpec == FlatInit /\ [][FlatNext]_vars


(***************************************************************************)
(* Round trip: a record of scalar and sequence fields flattened, every     *)
(* leaf encoded, and the entries assigned one by one, in any order, into   *)
(* a fresh instance, the way setApp hands them to setAppOption             *)
(***************************************************************************)

MaxRoundFields == 2

RoundTags == {<<>>, <<"a">>, <<"b">>, <<"a", Dot, "b">>, <<"-">>}

RoundLeaves ==
  {Bool(TRUE), Bool(FALSE), String(<<>>), String(<<"x">>), String(<<"x", Comma, "y">>),
   Slice(<<>>), Slice(<<<<"x">>>>), Slice(<<<<"x", Comma>>, <<"y">>>>)}

RoundChoices == [tag : RoundTags, v : RoundLeaves]

RoundShapes == UNION {[1..n -> RoundChoices] : n \in 0..MaxRoundFields}

RoundRecords ==
  {Struct([i \in 1..Len(sh) |-> Field(FieldNames[i], sh[i].tag, sh[i].v)]) :
     sh \in RoundShapes}

Without(m, k) == [x \in DOMAIN m \ {k} |-> m[x]]

RoundInit ==
  /\ rObj \in RoundRecords
  /\ rTodo = <<>>
  /\ rTarget = <<>>
  /\ rStage = "new"
  /\ KeyIdle /\ FlatIdle /\ ServerIdle

\* options := structToFlatMap(app), every value in its text form, and the
\* fresh instance to assign into.
RoundFlatten ==
  /\ rStage = "new"
  /\ LET options == StructToFlatMap(rObj)
         todo == [k \in DOMAIN options |-> Encode(options[k])]
     IN /\ rTodo' = todo
        /\ rStage' = IF DOMAIN todo = {} THEN "done" ELSE "assigning"
  /\ rTarget' = ZeroOf(rObj)
  /\ UNCHANGED <<kIn, kOut, fObj, fOut, rObj, serverVars>>

\* One entry reconstructed and assigned.
RoundAssign ==
  /\ rStage = "assigning"
  /\ \E k \in DOMAIN rTodo :
       /\ rTarget' = AssignMapToStruct(ConvertFlatToNested(k :> rTodo[k]), rTarget)
       /\ rTodo' = Without(rTodo, k)
       /\ rStage' = IF DOMAIN rTodo = {k} THEN "done" ELSE "assigning"
  /\ UNCHANGED <<kIn, kOut, fObj, fOut, rObj, serverVars>>

RoundNext == RoundFlatten \/ RoundAssign

RoundSpec == RoundInit /\ [][RoundNext]_vars


(***************************************************************************)
(* The request handlers                                                    *)
(***************************************************************************)

NProcs == 2

MaxRequests == 2

MaxSeqRequests == 3

Procs == 1..NProcs

AppsPrefix == <<"apps">>

\* The app IDs of the requests.
AppIDs == {<<"a">>, <<"a", Dot, "b">>}

\* util.App, of which the handlers name Active, Title and DarkColor.
MkApp(active, title, dark) ==
  Struct(<<Field(<<"Active">>, <<"active">>, Bool(active)),
           Field(<<"Title">>, <<"title">>, String(title)),
           Field(<<"DarkColor">>, <<"dark_color">>, String(dark))>>)

ZeroApp == MkApp(FALSE, <<>>, <<>>)

\* The bodies of the setApp requests.
Bodies == {ZeroApp, MkApp(TRUE, <<"T">>, <<"D">>)}

\* getApps' defaultApps.
DefaultApps ==
  [k \in {<<"ansible">>, <<"terraform">>, <<"tofu">>, <<"bash">>,
          <<"powershell">>, <<"python">>} |-> ZeroApp]

Kinds == {"getApps", "getApp", "deleteApp", "setApp", "setAppActive"}

IdleProc ==
  [pc |-> "idle", kind |-> "none", paramErr |-> FALSE, next |-> FALSE,
   appID |-> <<>>, todo |-> EmptyMap, key |-> <<>>, text |-> <<>>,
   snap |-> EmptyMap, status |-> <<>>, errKey |-> <<>>, delErr |-> "none",
   wrote |-> EmptyMap, got |-> <<>>]

ValidateAppID(str) == "nil"

\* helpers.GetStrParam: the parameter, or "" and an error.
GetStrParam(ok, id) == IF ok THEN id ELSE <<>>

\* "apps." + appID + "." + field
OptionKey(appID, field) == AppsPrefix \o <<Dot>> \o appID \o <<Dot>> \o field

\* The map with the zero-valued sibling options of the key beside it.
SetAppOptionOptsAll(key, v) ==
  LET pre == SubSeq(key, 1, Len(key) - 1)
      zero == StructToFlatMap(ZeroApp)
  IN (key :> v) @@
     [k \in {pre \o f : f \in DOMAIN zero} |->
        Sprintf(zero[SubSeq(k, Len(pre) + 1, Len(k))])]

\* opts := make(map[string]string); opts[key] = v
SetAppOptionOpts(key, v) == (key :> v)

\* Any error of the store is a failure.
DeleteFailsOnAny(err) == err # "nil"

\* err != nil && !errors.Is(err, db.ErrNotFound)
DeleteFails(err) == err # "nil" /\ err # "ErrNotFound"

\* The loop goes on to the next option.
AfterSetErrorGoOn(todo) == IF DOMAIN todo = {} THEN "done" ELSE "set"

\* setApp and setAppActive return when setAppOption returns an error.
AfterSetError(todo) == "done"

\* The subtree of the apps of the options' tree.
AppsKids(tree) ==
  IF AppsPrefix \in DOMAIN tree /\ ~tree[AppsPrefix].isLeaf
  THEN tree[AppsPrefix].kids ELSE EmptyMap

\* store.DeleteOptions(prefix): the keys it deletes.
Matching(prefix) == {k \in DOMAIN store : HasPrefix(k, prefix)}

\* store.SetOption(key, v), when it succeeds.
StoreSet(st, key, v) == (key :> v) @@ st

ServerInit ==
  /\ store = EmptyMap
  /\ apps = EmptyMap
  /\ procs = [p \in Procs |-> IdleProc]
  /\ served = 0
  /\ crashed = FALSE
  /\ KeyIdle /\ FlatIdle /\ RoundIdle

\* The handler's own part before its first access to the store or to
\* util.Config: Bind, and for setApp structToFlatMap.
Prologue(pr, kind, bindOK, body, active) ==
  CASE kind \in {"getApp", "getApps"} -> [pr EXCEPT !.pc = "read"]
    [] kind = "deleteApp" -> [pr EXCEPT !.pc = "delete"]
    [] kind \in {"setApp", "setAppActive"} ->
         IF ~bindOK
         THEN [pr EXCEPT !.pc = "done", !.status = pr.status \o <<400>>]
         ELSE LET options == IF kind = "setApp"
                             THEN [k \in DOMAIN StructToFlatMap(body) |->
                                     MarshalLeaf(StructToFlatMap(body)[k])]
                             ELSE (<<"active">> :> Bool(active))
              IN IF DOMAIN options = {}
                 THEN [pr EXCEPT !.pc = "done", !.status = pr.status \o <<204>>]
                 ELSE [pr EXCEPT !.pc = "set", !.todo = options]

\* appMiddleware around a handler of an app; getApps is routed without it.
Serve(p, max) ==
  /\ ~crashed
  /\ procs[p].pc \in {"idle", "done"}
  /\ served < max
  /\ served' = served + 1
  /\ \E kind \in Kinds, paramOK, bindOK, active \in BOOLEAN,
        id \in AppIDs, body \in Bodies :
       LET appID == GetStrParam(paramOK, id)
           st == IF paramOK THEN <<>> ELSE <<400>>
           pr == [IdleProc EXCEPT !.kind = kind]
       IN procs' = [procs EXCEPT ![p] =
            IF kind = "getApps" THEN Prologue(pr, kind, bindOK, body, active)
            ELSE IF ValidateAppID(appID) # "nil"
                 THEN [pr EXCEPT !.pc = "done", !.paramErr = ~paramOK,
                                 !.status = st \o <<400>>]
                 ELSE Prologue([pr EXCEPT !.paramErr = ~paramOK, !.status = st,
                                          !.appID = appID, !.next = TRUE],
                               kind, bindOK, body, active)]
  /\ UNCHANGED <<store, apps, crashed, pureVars>>


\* getApp and getApps start to read util.Config.Apps.
ReadBegin(p) ==
  /\ ~crashed
  /\ procs[p].pc = "read"
  /\ procs' = [procs EXCEPT ![p].pc = "reading"]
  /\ UNCHANGED <<store, apps, served, crashed, pureVars>>

\* The read is done and the response is written.
ReadEnd(p) ==
  /\ ~crashed
  /\ procs[p].pc = "reading"
  /\ LET pr == procs[p]
     IN procs' = [procs EXCEPT ![p] =
          IF pr.kind = "getApps"
          THEN [pr EXCEPT !.pc = "done", !.status = pr.status \o <<200>>,
                          !.got = <<apps @@ DefaultApps>>]
          ELSE IF pr.appID \in DOMAIN apps
               THEN [pr EXCEPT !.pc = "done", !.status = pr.status \o <<200>>,
                               !.got = <<apps[pr.appID]>>]
               ELSE [pr EXCEPT !.pc = "done", !.status = pr.status \o <<404>>]]
  /\ UNCHANGED <<store, apps, served, crashed, pureVars>>

\* deleteApp: store.DeleteOptions("apps." + appID), which deletes the
\* matching keys, reports ErrNotFound when there is none, or fails.
DeleteOptions(p) ==
  /\ ~crashed
  /\ procs[p].pc = "delete"
  /\ LET pr == procs[p]
         hit == Matching(AppsPrefix \o <<Dot>> \o pr.appID)
     IN \E err \in {IF hit = {} THEN "ErrNotFound" ELSE "nil", "error"} :
          /\ store' = IF err = "nil"
                      THEN [k \in DOMAIN store \ hit |-> store[k]] ELSE store
          /\ procs' = [procs EXCEPT ![p] =
               IF DeleteFails(err)
               THEN [pr EXCEPT !.pc = "done", !.delErr = err,
                               !.status = pr.status \o <<500>>]
               ELSE [pr EXCEPT !.pc = "deleteMap", !.delErr = err]]
  /\ UNCHANGED <<apps, served, crashed, pureVars>>

\* deleteApp: delete(util.Config.Apps, appID) and the 204.
DeleteMap(p) ==
  /\ ~crashed
  /\ procs[p].pc = "deleteMap"
  /\ apps' = [k \in DOMAIN apps \ {procs[p].appID} |-> apps[k]]
  /\ procs' = [procs EXCEPT ![p].pc = "done",
                            ![p].status = procs[p].status \o <<204>>]
  /\ UNCHANGED <<store, served, crashed, pureVars>>

\* setAppOption up to the store's answer, for one of the options the loop
\* of setApp has not yet handled (setAppActive has the one): the option is
\* stored, or the store fails and the handler reports that error.
SetOption(p) ==
  /\ ~crashed
  /\ procs[p].pc = "set"
  /\ LET pr == procs[p]
     IN \E k \in DOMAIN pr.todo, ok \in BOOLEAN :
          LET key == OptionKey(pr.appID, k)
              v == Sprintf(pr.todo[k])
              rest == Without(pr.todo, k)
          IN IF ok
             THEN /\ store' = StoreSet(store, key, v)
                  /\ procs' = [procs EXCEPT ![p] =
                       [pr EXCEPT !.pc = "assign", !.todo = rest, !.key = key,
                                  !.text = v, !.wrote = (key :> v) @@ pr.wrote]]
             ELSE /\ store' = store
                  /\ procs' = [procs EXCEPT ![p] =
                       [pr EXCEPT !.pc = AfterSetError(rest), !.todo = rest,
                                  !.errKey = pr.errKey \o <<key>>,
                                  !.status = pr.status \o <<500>>]]
  /\ UNCHANGED <<apps, served, crashed, pureVars>>

\* The options' tree of the handler's current key.
TreeOf(pr) == ConvertFlatToNested(SetAppOptionOpts(pr.key, pr.text))

\* db.AssignMapToStruct(options, util.Config) starts: Apps is a map of
\* util.App values, so the element of each app of the tree is copied out
\* (a new one where the map has none).
AssignBegin(p) ==
  /\ ~crashed
  /\ procs[p].pc = "assign"
  /\ procs' = [procs EXCEPT ![p].pc = "assigning",
                            ![p].snap = [k \in DOMAIN AppsKids(TreeOf(procs[p])) |->
                                           IF k \in DOMAIN apps THEN apps[k] ELSE ZeroApp]]
  /\ UNCHANGED <<store, apps, served, crashed, pureVars>>

\* The copy, with the tree assigned into it, is put back into the map;
\* setAppOption returns nil, and the handler goes on to its next option or
\* writes the 204.
AssignEnd(p) ==
  /\ ~crashed
  /\ procs[p].pc = "assigning"
  /\ LET pr == procs[p]
         kids == AppsKids(TreeOf(pr))
     IN /\ apps' = [k \in DOMAIN kids |->
                      IF kids[k].isLeaf THEN pr.snap[k]
                      ELSE AssignMapToStruct(kids[k].kids, pr.snap[k])] @@ apps
        /\ procs' = [procs EXCEPT ![p] =
             IF DOMAIN pr.todo = {}
             THEN [pr EXCEPT !.pc = "done", !.snap = EmptyMap,
                             !.status = pr.status \o <<204>>]
             ELSE [pr EXCEPT !.pc = "set", !.snap = EmptyMap]]
  /\ UNCHANGED <<store, served, crashed, pureVars>>

\* Two handlers are in util.Config.Apps at once, one of them writing: the
\* Go runtime may end the process (concurrent map read and map write,
\* concurrent map writes).
RuntimeFatal ==
  /\ ~crashed
  /\ \E p, q \in Procs :
       /\ p # q
       /\ procs[p].pc = "assigning"
       /\ procs[q].pc \in {"assigning", "reading"}
  /\ crashed' = TRUE
  /\ UNCHANGED <<store, apps, procs, served, pureVars>>

Next ==
  \/ \E p \in Procs : Serve(p, MaxRequests)
  \/ \E p \in Procs : ReadBegin(p)
  \/ \E p \in Procs : ReadEnd(p)
  \/ \E p \in Procs : DeleteOptions(p)
  \/ \E p \in Procs : DeleteMap(p)
  \/ \E p \in Procs : SetOption(p)
  \/ \E p \in Procs : AssignBegin(p)
  \/ \E p \in Procs : AssignEnd(p)
  \/ RuntimeFatal

\* The handlers of concurrent requests, interleaved at their accesses to
\* the store and to util.Config.
Spec == ServerInit /\ [][Next]_vars

SeqNext ==
  \/ Serve(1, MaxSeqRequests)
  \/ ReadBegin(1)
  \/ ReadEnd(1)
  \/ DeleteOptions(1)
  \/ DeleteMap(1)
  \/ SetOption(1)
  \/ AssignBegin(1)
  \/ AssignEnd(1)

\* The requests served one after the other: each handler returns before
\* the next request is taken.
SeqSpec == ServerInit /\ [][SeqNext]_vars


(***************************************************************************)
(* Properties of the key naming, the flattening and the round trip         *)
(***************************************************************************)

\* The text of a string before its first comma.
BeforeComma(s) ==
  IF \E i \in 1..Len(s) : s[i] = Comma
  THEN SubSeq(s, 1, (CHOOSE i \in 1..Len(s) :
                       s[i] = Comma /\ \A j \in 1..(i - 1) : s[j] # Comma) - 1)
  ELSE s

\* C6: every call of the key naming returns, for a field whose alias is
\* present, non-empty and not the omit marker "-", the part of the alias
\* before its first comma, and the declared name otherwise; the alias
\* "dark_color,omitempty" gives "dark_color"; every call for the same field
\* returns the same key.
KeyNamingRule ==
  \A i \in 1..Len(kOut) :
    /\ kOut[i] = IF kIn.tag # <<>> /\ kIn.tag # <<"-">>
                 THEN BeforeComma(kIn.tag) ELSE kIn.name
    /\ kIn.tag = <<"dark_color", Comma, "omitempty">> =>
         /\ kOut[i] = <<"dark_color">>
         /\ kOut[i] # kIn.tag
         /\ kOut[i] # kIn.name
    /\ kOut[i] = kOut[1]

KeyNamingWitness ==
  /\ Len(kOut) = MaxKeyCalls
  /\ kIn.tag = <<"dark_color", Comma, "omitempty">>
  /\ kIn.name = <<"DarkColor">>
  /\ kOut[1] = <<"dark_color">>

RECURSIVE TerminalsOf(_, _, _)
\* The terminal (non-record) fields below the fields of a record: the place
\* of each, the canonical key segments from the root to it, and its value.
TerminalsOf(fields, place, path) ==
  UNION {
    LET f == fields[i]
        seg == CanonicalKey(f.name, f.tag)
    IN IF f.v.kind = "struct"
       THEN TerminalsOf(f.v.val, place \o <<i>>, path \o <<seg>>)
       ELSE {[place |-> place \o <<i>>, path |-> path \o <<seg>>, v |-> f.v]}
    : i \in 1..Len(fields)}

RECURSIVE NoDuplicateKeys(_)
\* No two fields of a record, at any level, have the same canonical key.
NoDuplicateKeys(fields) ==
  /\ \A i, j \in 1..Len(fields) :
       i # j => CanonicalKey(fields[i].name, fields[i].tag)
                  # CanonicalKey(fields[j].name, fields[j].tag)
  /\ \A i \in 1..Len(fields) :
       fields[i].v.kind = "struct" => NoDuplicateKeys(fields[i].v.val)

RECURSIVE NoDotInKeys(_)
\* No canonical key segment of the record contains the separator.
NoDotInKeys(fields) ==
  \A i \in 1..Len(fields) :
    /\ IndexOf(CanonicalKey(fields[i].name, fields[i].tag), Dot) = 0
    /\ fields[i].v.kind = "struct" => NoDotInKeys(fields[i].v.val)

RECURSIVE UltimatelyRecord(_)
UltimatelyRecord(v) ==
  IF v.kind = "ptr" THEN UltimatelyRecord(v.val) ELSE v.kind = "struct"

\* The record a value is, directly or behind one pointer.
RecordOf(v) == IF v.kind = "ptr" THEN v.val ELSE v

\* The mapping has one entry per terminal field of the record, keyed by the
\* joined path and holding the field's own value.
OneEntryPerTerminal(out, fields) ==
  LET T == TerminalsOf(fields, <<>>, <<>>)
  IN /\ Cardinality(DOMAIN out) = Cardinality({t.place : t \in T})
     /\ DOMAIN out = {Join(t.path, Dot) : t \in T}
     /\ \A t \in T : out[Join(t.path, Dot)] = t.v

KeysOf(fields) == {CanonicalKey(fields[i].name, fields[i].tag) : i \in 1..Len(fields)}

Last(s) == s[Len(s)]

\* The field of setAppOption's key "apps." + appID + "." + field.
FieldOfKey(pr) == SubSeq(pr.key, Len(AppsPrefix) + Len(pr.appID) + 3, Len(pr.key))

\* The handler ends its assign into util.Config in this step.
AssignEnds(p) == procs[p].pc = "assigning" /\ procs'[p].pc # "assigning"

\* C1: the assign that ends a successful setAppOption(store, appID, f, v)
\* leaves every field other than f of the app appID with the value it had
\* (the zero value when the app is new in util.Config.Apps), after any
\* sequence of calls.
PartialUpdateFrame ==
  [][\A p \in Procs :
       AssignEnds(p) =>
         LET id == procs[p].appID
             before == IF id \in DOMAIN apps THEN apps[id] ELSE ZeroApp
         IN id \in DOMAIN apps' =>
              \A i \in 1..Len(before.val) :
                CanonicalKey(before.val[i].name, before.val[i].tag) # FieldOfKey(procs[p])
                  => apps'[id].val[i] = before.val[i]]_vars

PartialUpdateWitness ==
  /\ procs[1].kind = "setAppActive"
  /\ procs[1].pc = "done"
  /\ procs[1].appID = <<"a">>
  /\ procs[1].wrote = (OptionKey(<<"a">>, <<"active">>) :> <<"false">>)
  /\ Last(procs[1].status) = 204
  /\ <<"a">> \in DOMAIN apps
  /\ apps[<<"a">>] = MkApp(FALSE, <<"T">>, <<"D">>)

\* The number of 500s among the statuses a handler has written.
Errors(pr) == Cardinality({i \in 1..Len(pr.status) : pr.status[i] = 500})

SerializedAccess ==
  \A p, q \in Procs :
    (p # q /\ ~procs[p].paramErr /\ ~procs[q].paramErr /\ procs[p].pc = "assigning")
      => procs[q].pc \notin {"assigning", "reading"}

\* C7: deleteApp goes on to delete the app from util.Config.Apps and to
\* write 204 when store.DeleteOptions succeeded or reported ErrNotFound;
\* on any other error it writes 500 and returns with util.Config.Apps as
\* it was.
DeleteAppOutcome ==
  [][\A p \in Procs :
       LET pr == procs[p]
           after == procs'[p]
       IN /\ (pr.pc = "delete" /\ after.pc # "delete") =>
               /\ apps' = apps
               /\ IF after.delErr \in {"nil", "ErrNotFound"}
                  THEN after.pc = "deleteMap" /\ after.status = pr.status
                  ELSE after.pc = "done" /\ Last(after.status) = 500
          /\ (pr.pc = "deleteMap" /\ after.pc # "deleteMap") =>
               /\ pr.delErr \in {"nil", "ErrNotFound"}
               /\ pr.appID \notin DOMAIN apps'
               /\ \A k \in DOMAIN apps \ {pr.appID} :
                    k \in DOMAIN apps' /\ apps'[k] = apps[k]
               /\ after.pc = "done"
               /\ Last(after.status) = 204]_vars

DeleteAppWitness ==
  \E p \in Procs :
    /\ procs[p].kind = "deleteApp"
    /\ procs[p].pc = "done"
    /\ procs[p].delErr = "ErrNotFound"
    /\ procs[p].status = <<204>>
    /\ procs[p].appID = <<"a">>
    /\ <<"a">> \notin DOMAIN apps
    /\ <<>> \in DOMAIN apps
    /\ served = MaxSeqRequests

\* The %v text of the field of util.Config.Apps a key of three segments
\* names; <<>> when there is no such app or field.
MemText(key) ==
  LET parts == Split(key, Dot)
  IN IF parts[2] \notin DOMAIN apps THEN <<>>
     ELSE LET fs == apps[parts[2]].val
              hit == {i \in 1..Len(fs) : CanonicalKey(fs[i].name, fs[i].tag) = parts[3]}
          IN IF hit = {} THEN <<>>
             ELSE <<Sprintf(MarshalLeaf(fs[CHOOSE i \in hit : TRUE].v))>>

\* C8 as stated: a handler is in the assign only after its store write
\* succeeded, and once the setAppOption calls have all completed
\* successfully, every field they set has in util.Config the value the
\* store holds under its key (requests with an app_id without ".", and no
\* deleteApp among them).
QuiescentAgreement ==
  /\ \A p \in Procs :
       procs[p].pc \in {"assign", "assigning"} => procs[p].key \in DOMAIN procs[p].wrote
  /\ (/\ ~crashed
      /\ \A p \in Procs :
           /\ procs[p].pc \in {"idle", "done"}
           /\ procs[p].kind \in {"none", "setApp", "setAppActive"}
           /\ ~procs[p].paramErr
           /\ procs[p].errKey = <<>>) =>
       \A p \in Procs : \A k \in DOMAIN procs[p].wrote :
         (Len(Split(k, Dot)) = 3 /\ k \in DOMAIN store) => MemText(k) = <<store[k]>>

\* C9 as stated: a successful store write of setAppOption changes the store
\* at the key "apps." + appID + "." + field alone, and its assign changes
\* in util.Config.Apps no entry but that of appID.
AppIsolation ==
  [][\A p \in Procs :
       LET pr == procs[p]
           after == procs'[p]
       IN /\ (pr.pc = "set" /\ after.pc = "assign") =>
               /\ \E f \in DOMAIN pr.todo : after.key = OptionKey(pr.appID, f)
               /\ DOMAIN store' = DOMAIN store \cup {after.key}
               /\ \A k \in DOMAIN store \ {after.key} : store'[k] = store[k]
          /\ AssignEnds(p) =>
               /\ DOMAIN apps' \ {pr.appID} = DOMAIN apps \ {pr.appID}
               /\ \A id \in DOMAIN apps \ {pr.appID} : apps'[id] = apps[id]]_vars

\* C10 as stated: a request whose app_id could not be read gets the 400 and
\* nothing else: the next handler is not invoked.
MiddlewareStops ==
  \A p \in Procs :
    procs[p].paramErr => ~procs[p].next /\ procs[p].status = <<400>>

=============================================================================
